---- MODULE Spec2Model ----
(***************************************************************************)
(* Eigencurve dashboard: the live classification view (an EventSource on   *)
(* /api/stream feeding a table of flows), the /api/stream route (a TCP     *)
(* socket relayed as Server-Sent Events) and the /api/iocs route (a        *)
(* MongoDB read reshaped to JSON).                                         *)
(***************************************************************************)
EXTENDS Integers, Sequences, FiniteSets, TLC

VARIABLES
    \* ---- live classification view (LiveClassificationTab)
    mounted,      \* the component instance is mounted
    isPaused,     \* useState(false)
    flows,        \* useState<FlowClassification[]>([])
    esState,      \* readyState of every EventSource the view constructed
    now,          \* wall clock read by new Date(), one tick per SSE message
    accepted,     \* history: the flows built by onmessage, oldest first
    searchTerm,   \* useState("")
    delivered,    \* history: event.data of every message given to onmessage
    badLogged,    \* number of console.error("Bad JSON:", err) calls
    dropped,      \* history: the connection dropped since the effect last ran
    \* ---- /api/stream route
    sockState,    \* net.Socket: connecting, connected, errored, closed
    ctrl,         \* ReadableStream controller: open, closed, cancelled
    out,          \* the chunks enqueued on the SSE stream, in order
    wire,         \* characters written by the TCP peer, not yet received
    written,      \* history: the complete lines the TCP peer wrote
    thrown,       \* number of socket handlers ended by an exception of enqueue
    \* ---- /api/iocs route
    collection,   \* the documents of the "iocs" collection
    pc,           \* position of the GET handler
    conn,         \* the MongoClient of this request: none, open, closed
    connects,     \* number of MongoClient.connect calls of this request
    docs,         \* the result of toArray()
    dbFailed,     \* history: a database operation of this request failed
    response,     \* the NextResponse returned
    \* ---- IOC database view (IOCDatabase)
    viewMounted,  \* the component instance is mounted
    iocs,         \* useState<IOC[]>([]): the value setIocs last stored
    loading,      \* useState(false)
    fetches,      \* every fetchIocs call of this instance, in order of issue
    \* ---- on-demand scan view (OnDemandScanTab)
    logText,      \* useState("")
    results,      \* useState<ScanResult[] | null>(null)
    isAnalyzing,  \* useState(false)
    timers,       \* pending setTimeout callbacks, with the text at their start
    reads,        \* contents of the files a FileReader is still reading
    scans         \* history: every finished analysis, as text and rows shown

liveVars == <<mounted, isPaused, flows, esState, now, accepted,
              searchTerm, delivered, badLogged, dropped>>
streamVars == <<sockState, ctrl, out, wire, written, thrown>>
iocsVars == <<collection, pc, conn, connects, docs, dbFailed, response>>
viewVars == <<viewMounted, iocs, loading, fetches>>
scanVars == <<logText, results, isAnalyzing, timers, reads, scans>>
vars == <<mounted, isPaused, flows, esState, now, accepted,
          searchTerm, delivered, badLogged, dropped,
          sockState, ctrl, out, wire, written, thrown,
          collection, pc, conn, connects, docs, dbFailed, response,
          viewMounted, iocs, loading, fetches,
          logText, results, isAnalyzing, timers, reads, scans>>

\* ------------------------------------------------------------------------
\* JavaScript values: a number, a string, or undefined.
Num(n) == [t |-> "num", n |-> n, s |-> ""]
Str(s) == [t |-> "str", n |-> 0, s |-> s]
Undef == [t |-> "undef", n |-> 0, s |-> ""]

\* a > b for a JavaScript value a and a number b: undefined > b is false.
JsGreater(a, b) == a.t = "num" /\ a.n > b

Digit(d) == CASE d = 0 -> "0" [] d = 1 -> "1" [] d = 2 -> "2" [] d = 3 -> "3"
              [] d = 4 -> "4" [] d = 5 -> "5" [] d = 6 -> "6" [] d = 7 -> "7"
              [] d = 8 -> "8" [] d = 9 -> "9"

RECURSIVE DecimalString(_)
DecimalString(n) ==
    IF n < 10 THEN Digit(n) ELSE DecimalString(n \div 10) \o Digit(n % 10)

\* String(v)
JsString(v) ==
    CASE v.t = "num" -> DecimalString(v.n)
      [] v.t = "str" -> v.s
      [] v.t = "undef" -> "undefined"

Min(a, b) == IF a < b THEN a ELSE b

\* xs.slice(0, n)
Slice0(xs, n) == SubSeq(xs, 1, Min(Len(xs), n))

\* ------------------------------------------------------------------------
\* Live classification view.

FlowCap == 100
BytesLimit == 90000
DurationLimit == 50000

MaxSources == 2     \* EventSources one view instance constructs
MaxMsgs == 2     \* SSE messages delivered when the payloads are free
BurstLen == 170   \* SSE messages delivered by the scripted burst

\* event.data: text that is not JSON, the JSON text null, or a JSON object.
BadJson == [json |-> "bad"]
JsonNull == [json |-> "null"]
JsonObj(src, dst, proto, dur, bytes, pkts) ==
    [json |-> "object", src_ip |-> src, dst_ip |-> dst, protocol |-> proto,
     duration_ms |-> dur, bytes |-> bytes, packets |-> pkts]

SampleFlow(proto, dur, bytes) ==
    JsonObj(Str("10.0.0.5"), Str("8.8.8.8"), Num(proto), Num(dur), Num(bytes), Num(12))

\* The payloads an SSE message may carry when the payloads are free.
Payloads ==
    { SampleFlow(6, d, b) : d \in {1000, DurationLimit, DurationLimit + 1},
                            b \in {1000, BytesLimit, BytesLimit + 1} }
    \cup { SampleFlow(p, 1000, 95000) : p \in {17, 1, 47} }
    \cup { JsonObj(Undef, Str("8.8.8.8"), Undef, Undef, Undef, Undef),
           JsonNull, BadJson }

\* The k-th payload of the scripted burst: every tenth is not JSON, the others
\* walk through the threshold's boundary values.
BurstPayload(k) ==
    IF k % 10 = 0 THEN BadJson
    ELSE SampleFlow(IF k % 2 = 0 THEN 6 ELSE 17,
                    IF k % 3 = 0 THEN DurationLimit + 1 ELSE DurationLimit,
                    IF k % 5 = 0 THEN BytesLimit + 1 ELSE BytesLimit)

\* JSON.parse(event.data) followed by the property reads of the flow literal:
\* FALSE when the try block throws (a SyntaxError of JSON.parse, or the
\* TypeError of reading src_ip of null).
Parses(payload) == payload.json = "object"

ProtocolLabelNoIcmp(p) ==
    IF p = Num(6) THEN "TCP"
    ELSE IF p = Num(17) THEN "UDP"
    ELSE JsString(p)

\* The conditional chain of the flow literal's protocol field.
ProtocolLabel(p) ==
    IF p = Num(6) THEN "TCP"
    ELSE IF p = Num(17) THEN "UDP"
    ELSE IF p = Num(1) THEN "ICMP"
    ELSE JsString(p)

VerdictLoose(data) ==
    IF JsGreater(data.bytes, BytesLimit - 1) \/ JsGreater(data.duration_ms, DurationLimit - 1)
    THEN "Malware" ELSE "Benign"

Verdict(data) ==
    IF JsGreater(data.bytes, BytesLimit) \/ JsGreater(data.duration_ms, DurationLimit)
    THEN "Malware" ELSE "Benign"

MakeFlow(data, time) ==
    [timestamp |-> time,
     srcIp     |-> data.src_ip,
     dstIp     |-> data.dst_ip,
     protocol  |-> ProtocolLabel(data.protocol),
     duration  |-> data.duration_ms,
     bytes     |-> data.bytes,
     packets   |-> data.packets,
     verdict   |-> Verdict(data)]

PushFlowUncapped(flow, prev) == <<flow>> \o prev

\* setFlows((prev) => [flow, ...prev].slice(0, 100))
PushFlow(flow, prev) == Slice0(<<flow>> \o prev, FlowCap)

Sources == 1 .. MaxSources
Created == Cardinality({i \in Sources : esState[i] # "unborn"})
Held == {i \in Sources : esState[i] \in {"connecting", "open"}}

\* The browser establishes (or re-establishes) the connection of an EventSource.
EsOpen(i) ==
    /\ esState[i] = "connecting"
    /\ esState' = [esState EXCEPT ![i] = "open"]
    /\ UNCHANGED <<mounted, isPaused, flows, now, accepted>>
    /\ UNCHANGED <<searchTerm, delivered, badLogged, dropped>>
    /\ UNCHANGED <<streamVars, iocsVars, viewVars, scanVars>>

\* The response stream ends or the network fails: onerror logs, and the browser
\* goes back to connecting.
EsError(i) ==
    /\ esState[i] = "open"
    /\ esState' = [esState EXCEPT ![i] = "connecting"]
    /\ dropped' = TRUE
    /\ UNCHANGED <<mounted, isPaused, flows, now, accepted>>
    /\ UNCHANGED <<searchTerm, delivered, badLogged>>
    /\ UNCHANGED <<streamVars, iocsVars, viewVars, scanVars>>

OnMessageClearing(i, payload) ==
    /\ esState[i] = "open"
    /\ now' = now + 1
    /\ IF Parses(payload)
       THEN /\ flows' = PushFlow(MakeFlow(payload, now'), flows)
            /\ accepted' = Append(accepted, MakeFlow(payload, now'))
       ELSE /\ flows' = <<>>
            /\ UNCHANGED accepted
    /\ delivered' = Append(delivered, payload)
    /\ badLogged' = IF Parses(payload) THEN badLogged ELSE badLogged + 1
    /\ UNCHANGED <<mounted, isPaused, esState, searchTerm, dropped>>
    /\ UNCHANGED <<streamVars, iocsVars, viewVars, scanVars>>

\* evtSource.onmessage: the try block builds the flow and prepends it, the
\* catch block logs whatever the try block threw.
OnMessage(i, payload) ==
    /\ esState[i] = "open"
    /\ now' = now + 1
    /\ IF Parses(payload)
       THEN /\ flows' = PushFlow(MakeFlow(payload, now'), flows)
            /\ accepted' = Append(accepted, MakeFlow(payload, now'))
       ELSE UNCHANGED <<flows, accepted>>
    /\ delivered' = Append(delivered, payload)
    /\ badLogged' = IF Parses(payload) THEN badLogged ELSE badLogged + 1
    /\ UNCHANGED <<mounted, isPaused, esState, searchTerm, dropped>>
    /\ UNCHANGED <<streamVars, iocsVars, viewVars, scanVars>>

Latest(es) == Cardinality({i \in Sources : es[i] # "unborn"})

CleanupNone(es, paused) == es

\* The cleanup the effect returned: evtSource.close() on the EventSource that
\* run of the effect constructed; a run that found isPaused returned none.
Cleanup(es, paused) ==
    IF paused THEN es ELSE [es EXCEPT ![Latest(es)] = "closed"]

\* The body of the effect: new EventSource("/api/stream") unless paused.
RunEffect(es, paused) ==
    IF paused THEN es ELSE [es EXCEPT ![Latest(es) + 1] = "connecting"]

\* The Switch calls setIsPaused; the effect depends on [isPaused], so the
\* cleanup of its last run and then its body run with the new value.
TogglePause ==
    /\ mounted
    /\ ~isPaused \/ Created < MaxSources
    /\ isPaused' = ~isPaused
    /\ esState' = RunEffect(Cleanup(esState, isPaused), isPaused')
    /\ dropped' = FALSE
    /\ UNCHANGED <<mounted, flows, now, accepted>>
    /\ UNCHANGED <<searchTerm, delivered, badLogged>>
    /\ UNCHANGED <<streamVars, iocsVars, viewVars, scanVars>>

\* The tab is left: the cleanup of the effect's last run is called.
Unmount ==
    /\ mounted
    /\ mounted' = FALSE
    /\ esState' = Cleanup(esState, isPaused)
    /\ dropped' = FALSE
    /\ UNCHANGED <<isPaused, flows, now, accepted>>
    /\ UNCHANGED <<searchTerm, delivered, badLogged>>
    /\ UNCHANGED <<streamVars, iocsVars, viewVars, scanVars>>

\* ---- the search box and the filter of the table

\* What the user can type into the search box.
Terms == {"", "8.8", "tcp", "MAL", "fe80", "FE80", "zz"}

\* The payloads of the messages when the filter is exercised: two flows of
\* dotted addresses, one whose addresses have letters, one without src_ip
\* and one without dst_ip.
SearchPayloads ==
    { SampleFlow(6, 1000, 1000),
      SampleFlow(17, 1000, 95000),
      JsonObj(Str("fe80::a"), Str("FE80::B"), Num(47), Num(1000), Num(1000), Num(12)),
      JsonObj(Undef, Str("8.8.8.8"), Num(6), Num(1000), Num(1000), Num(12)),
      JsonObj(Str("10.0.0.5"), Undef, Num(6), Num(1000), Num(1000), Num(12)) }

\* String.prototype.includes
Includes(text, term) ==
    \E i \in 0 .. Len(text) - Len(term) : SubSeq(text, i + 1, i + Len(term)) = term

UpperCase == "ABCDEFGHIJKLMNOPQRSTUVWXYZ"
LowerCase == "abcdefghijklmnopqrstuvwxyz"

LowerChar(c) ==
    IF \E i \in 1 .. Len(UpperCase) : SubSeq(UpperCase, i, i) = c
    THEN LET i == CHOOSE i \in 1 .. Len(UpperCase) : SubSeq(UpperCase, i, i) = c
         IN  SubSeq(LowerCase, i, i)
    ELSE c

\* String.prototype.toLowerCase
RECURSIVE ToLowerCase(_)
ToLowerCase(text) ==
    IF Len(text) = 0 THEN ""
    ELSE LowerChar(SubSeq(text, 1, 1)) \o ToLowerCase(SubSeq(text, 2, Len(text)))

\* value.includes(term) throws a TypeError: value is not a string.
IncludesThrows(value) == value.t # "str"

\* The filter callback throws on this flow: the || chain reaches an IP that
\* is not a string.
MatchThrows(flow, term) ==
    \/ IncludesThrows(flow.srcIp)
    \/ ~Includes(flow.srcIp.s, term) /\ IncludesThrows(flow.dstIp)

\* The filter callback's result on a flow it does not throw on.
Matches(flow, term) ==
    \/ Includes(flow.srcIp.s, term)
    \/ Includes(flow.dstIp.s, term)
    \/ Includes(ToLowerCase(flow.protocol), ToLowerCase(term))
    \/ Includes(ToLowerCase(flow.verdict), ToLowerCase(term))

\* flows.filter(...), evaluated at every render: the rows shown, or a throw
\* that leaves nothing rendered.
FilteredFlows ==
    IF \E k \in DOMAIN flows : MatchThrows(flows[k], searchTerm)
    THEN [ok |-> FALSE, rows |-> <<>>]
    ELSE LET Test(flow) == Matches(flow, searchTerm)
         IN  [ok |-> TRUE, rows |-> SelectSeq(flows, Test)]

\* The search box's onChange.
SetSearchTerm(term) ==
    /\ mounted
    /\ searchTerm' = term
    /\ UNCHANGED <<mounted, isPaused, flows, esState, now, accepted>>
    /\ UNCHANGED <<delivered, badLogged, dropped>>
    /\ UNCHANGED <<streamVars, iocsVars, viewVars, scanVars>>

\* ------------------------------------------------------------------------
\* /api/stream route.  Text is a sequence of one-character strings.

MaxLines == 2     \* lines the TCP peer writes on one connection

NL == "\n"
Whitespace == {" ", NL}

\* The lines the TCP peer may write; {} is the text of a JSON object.
Lines == { <<"a">>, <<"b">>, <<"a", "b">>, <<"{", "}">> }

\* err.message of a socket error
ErrMessages == { <<"E", "C", "O", "N", "N", "R", "E", "S", "E", "T">> }

RECURSIVE TrimStart(_)
TrimStart(text) ==
    IF text # <<>> /\ Head(text) \in Whitespace THEN TrimStart(Tail(text)) ELSE text

RECURSIVE TrimEnd(_)
TrimEnd(text) ==
    IF text # <<>> /\ text[Len(text)] \in Whitespace
    THEN TrimEnd(SubSeq(text, 1, Len(text) - 1)) ELSE text

\* String.prototype.trim
Trim(text) == TrimEnd(TrimStart(text))

\* `data: ${message}\n\n`
DataFrame(message) == <<"d", "a", "t", "a", ":", " ">> \o message \o <<NL, NL>>

\* "event: end\ndata: Connection closed\n\n"
EndFrame ==
    <<"e", "v", "e", "n", "t", ":", " ", "e", "n", "d", NL>>
    \o <<"d", "a", "t", "a", ":", " ">>
    \o <<"C", "o", "n", "n", "e", "c", "t", "i", "o", "n", " ",
         "c", "l", "o", "s", "e", "d">>
    \o <<NL, NL>>

\* `event: error\ndata: ${err.message}\n\n`
ErrorFrame(message) ==
    <<"e", "v", "e", "n", "t", ":", " ", "e", "r", "r", "o", "r", NL>>
    \o <<"d", "a", "t", "a", ":", " ">> \o message \o <<NL, NL>>

\* client.connect(9999, "127.0.0.1", cb): the connection is established.
OnConnect ==
    /\ sockState = "connecting"
    /\ sockState' = "connected"
    /\ UNCHANGED <<ctrl, out, wire, written, thrown>>
    /\ UNCHANGED <<liveVars, iocsVars, viewVars, scanVars>>

\* The classifier process writes one line of text.
PeerWrite(line) ==
    /\ sockState = "connected"
    /\ Len(written) < MaxLines
    /\ wire' = wire \o line \o <<NL>>
    /\ written' = Append(written, line)
    /\ UNCHANGED <<sockState, ctrl, out, thrown>>
    /\ UNCHANGED <<liveVars, iocsVars, viewVars, scanVars>>

\* controller.enqueue(chunk): a TypeError unless the stream is still open.
\* Gives the new <<out, thrown>>.
Enqueue(chunk) ==
    IF ctrl = "open" THEN <<Append(out, chunk), thrown>> ELSE <<out, thrown + 1>>

\* The chunk enqueued for a received buffer; <<>> when nothing is enqueued.
Relay(chunk) == IF Trim(chunk) # <<>> THEN DataFrame(Trim(chunk)) ELSE <<>>

\* client.on("data"): the socket delivers the next n characters in one Buffer.
OnSocketData(n) ==
    /\ sockState = "connected"
    /\ n \in 1 .. Len(wire)
    /\ wire' = SubSeq(wire, n + 1, Len(wire))
    /\ LET frame == Relay(SubSeq(wire, 1, n))
       IN  IF frame # <<>>
           THEN /\ out' = Enqueue(frame)[1]
                /\ thrown' = Enqueue(frame)[2]
           ELSE UNCHANGED <<out, thrown>>
    /\ UNCHANGED <<sockState, ctrl, written>>
    /\ UNCHANGED <<liveVars, iocsVars, viewVars, scanVars>>

OnSocketErrorClosing(message) ==
    /\ sockState \in {"connecting", "connected"}
    /\ sockState' = "errored"
    /\ wire' = <<>>
    /\ out' = Enqueue(ErrorFrame(message))[1]
    /\ thrown' = Enqueue(ErrorFrame(message))[2]
    /\ ctrl' = IF ctrl = "open" THEN "closed" ELSE ctrl
    /\ UNCHANGED written
    /\ UNCHANGED <<liveVars, iocsVars, viewVars, scanVars>>

\* client.on("error"): the connect attempt or the connection fails; what the
\* peer wrote and was not received is lost.
OnSocketError(message) ==
    /\ sockState \in {"connecting", "connected"}
    /\ sockState' = "errored"
    /\ wire' = <<>>
    /\ out' = Enqueue(ErrorFrame(message))[1]
    /\ thrown' = Enqueue(ErrorFrame(message))[2]
    /\ UNCHANGED <<ctrl, written>>
    /\ UNCHANGED <<liveVars, iocsVars, viewVars, scanVars>>

CloseStreamKeepOpen(c) == c

\* controller.close(), reached only when the enqueue before it did not throw.
CloseStream(c) == IF c = "open" THEN "closed" ELSE c

\* client.on("close"): emitted once, after the peer ended the connection and
\* everything it wrote was received, or directly after "error".
OnSocketClose ==
    /\ \/ sockState = "connected" /\ wire = <<>>
       \/ sockState = "errored"
    /\ sockState' = "closed"
    /\ out' = Enqueue(EndFrame)[1]
    /\ thrown' = Enqueue(EndFrame)[2]
    /\ ctrl' = CloseStream(ctrl)
    /\ UNCHANGED <<wire, written>>
    /\ UNCHANGED <<liveVars, iocsVars, viewVars, scanVars>>

\* The browser closes the response (EventSource.close()): the stream is
\* cancelled.  The underlying source has no cancel(), the socket stays.
ClientCancel ==
    /\ ctrl = "open"
    /\ sockState # "errored"
    /\ ctrl' = "cancelled"
    /\ UNCHANGED <<sockState, out, wire, written, thrown>>
    /\ UNCHANGED <<liveVars, iocsVars, viewVars, scanVars>>

\* ---- what an EventSource makes of the enqueued chunks

RECURSIVE Concat(_)
Concat(chunks) == IF chunks = <<>> THEN <<>> ELSE Head(chunks) \o Concat(Tail(chunks))

\* The complete lines of the stream; text after the last newline is pending.
LinesOf(text) ==
    LET ends == {i \in DOMAIN text : text[i] = NL}
        EndOf(k) == CHOOSE i \in ends : Cardinality({j \in ends : j < i}) = k - 1
    IN  [k \in 1 .. Cardinality(ends) |->
            SubSeq(text, IF k = 1 THEN 1 ELSE EndOf(k - 1) + 1, EndOf(k) - 1)]

ColonAt(line) ==
    IF \E i \in DOMAIN line : line[i] = ":"
    THEN CHOOSE i \in DOMAIN line : line[i] = ":" /\ \A j \in 1 .. i - 1 : line[j] # ":"
    ELSE 0

FieldName(line) == IF ColonAt(line) = 0 THEN line ELSE SubSeq(line, 1, ColonAt(line) - 1)

FieldValue(line) ==
    IF ColonAt(line) = 0 THEN <<>>
    ELSE LET v == SubSeq(line, ColonAt(line) + 1, Len(line))
         IN  IF v # <<>> /\ Head(v) = " " THEN Tail(v) ELSE v

MessageType == <<"m", "e", "s", "s", "a", "g", "e">>
EndType == <<"e", "n", "d">>
ErrorType == <<"e", "r", "r", "o", "r">>

\* The event stream interpretation of the HTML standard: a blank line
\* dispatches the event when a data field was seen; unknown fields are ignored.
RECURSIVE Dispatch(_, _, _, _)
Dispatch(lines, type, data, hasData) ==
    IF lines = <<>> THEN <<>>
    ELSE LET line == Head(lines)
             rest == Tail(lines)
         IN  IF line = <<>>
             THEN (IF hasData
                   THEN <<[type |-> IF type = <<>> THEN MessageType ELSE type,
                           data |-> data]>>
                   ELSE <<>>)
                  \o Dispatch(rest, <<>>, <<>>, FALSE)
             ELSE IF FieldName(line) = <<"d", "a", "t", "a">>
             THEN Dispatch(rest, type,
                           IF hasData THEN data \o <<NL>> \o FieldValue(line)
                           ELSE FieldValue(line), TRUE)
             ELSE IF FieldName(line) = <<"e", "v", "e", "n", "t">>
             THEN Dispatch(rest, FieldValue(line), data, hasData)
             ELSE Dispatch(rest, type, data, hasData)

\* The events the browser dispatches for a sequence of chunks.
EventsOf(chunks) == Dispatch(LinesOf(Concat(chunks)), <<>>, <<>>, FALSE)

\* The events the browser dispatches for the chunks enqueued so far.
SseEvents == EventsOf(out)

\* ---- what the live view makes of the events

OnMessageTakesAll(event) == TRUE

\* evtSource.onmessage is called for the events of type message only; the
\* view registers no listener for any other type.
OnMessageTakes(event) == event.type = MessageType

\* JSON.parse(event.data) on the texts this stream can carry: {} is an object
\* without properties, every other text is a SyntaxError.
JsonParse(text) ==
    IF text = <<"{", "}">>
    THEN JsonObj(Undef, Undef, Undef, Undef, Undef, Undef)
    ELSE BadJson

\* The events handed to onmessage, in order.
Received(events) == SelectSeq(events, OnMessageTakes)

\* The table after onmessage has run on the first n of the events it was
\* handed, at times 1 .. n.
RECURSIVE RowsAfter(_, _)
RowsAfter(got, n) ==
    IF n = 0 THEN <<>>
    ELSE IF Parses(JsonParse(got[n].data))
    THEN PushFlow(MakeFlow(JsonParse(got[n].data), n), RowsAfter(got, n - 1))
    ELSE RowsAfter(got, n - 1)

\* The table of a view that has read these events from the first one on.
ViewRows(events) == RowsAfter(Received(events), Len(Received(events)))

\* ------------------------------------------------------------------------
\* /api/iocs route.

IocLimit == 100

MaxDocs == 2     \* documents of a collection whose documents are free
MaxExtra == 2     \* documents a bulk collection holds beyond IocLimit

\* A JavaScript value is truthy: not undefined, not "", not 0.
Truthy(v) == (v.t = "str" /\ v.s # "") \/ (v.t = "num" /\ v.n # 0)

JsOrNullish(a, b) == IF a # Undef THEN a ELSE b

\* a || b
JsOr(a, b) == IF Truthy(a) THEN a ELSE b

\* A document of the collection.  enrichment: "none" (no entity_enrichment),
\* "nocompany" (entity_enrichment without company) or "full"; date: a record
\* with kind "missing", "valid" (day of January 2024) or "invalid" (a string
\* that new Date() cannot parse).
DocShape(enrichment, countryCode, date) ==
    [_id |-> Undef,
     entity |-> Str("198.51.100.7"),
     entity_type |-> Str("ip"),
     entity_enrichment |->
        [present |-> enrichment # "none",
         company |-> enrichment = "full",
         asn |-> Num(15169), as_name |-> Str("GOOGLE"),
         as_type |-> Str("hosting"), country |-> Str("US")],
     entity_src_meta |->
        [present |-> TRUE, country_code |-> countryCode, conf_score |-> Num(80)],
     entity_threat_attr |->
        [present |-> TRUE, malware_family |-> Str("mirai"),
         threat_type |-> Undef, meta_1_type |-> Undef],
     detection_date |-> date,
     source |-> Str("feed")]

NoDate == [kind |-> "missing", day |-> 0]
ValidDate(n) == [kind |-> "valid", day |-> n]
InvalidDate == [kind |-> "invalid", day |-> 0]

DocShapes ==
    { DocShape(e, c, dt) :
        e \in {"none", "nocompany", "full"},
        c \in {Undef, Str("IN")},
        dt \in {NoDate, ValidDate(3), ValidDate(7), InvalidDate} }

\* A document with company enrichment and a valid date whose top-level
\* fields and threat attributes are as given.
FieldShape(entity, entityType, source, family, threatType, metaType) ==
    [DocShape("full", Undef, ValidDate(3)) EXCEPT
        !.entity = entity,
        !.entity_type = entityType,
        !.source = source,
        !.entity_threat_attr =
            [present |-> TRUE, malware_family |-> family,
             threat_type |-> threatType, meta_1_type |-> metaType]]

\* Documents whose fields are missing, empty or filled.
FieldShapes ==
    { FieldShape(e, t, s, Str("mirai"), Undef, Undef) :
        e \in {Undef, Str(""), Str("198.51.100.7")},
        t \in {Undef, Str(""), Str("ip")},
        s \in {Undef, Str(""), Str("feed")} }
    \cup { FieldShape(Str("198.51.100.7"), Str("ip"), Str("feed"), f, t, m) :
        f \in {Undef, Str(""), Str("mirai")},
        t \in {Undef, Str("botnet")},
        m \in {Undef, Str("c2")} }
    \cup { [DocShape("full", Undef, ValidDate(3)) EXCEPT
                !.entity_threat_attr.present = FALSE],
           FieldShape(Str(""), Undef, Undef, Str(""), Undef, Str("c2")) }

\* The i-th document of a bulk collection: every date is valid.
BulkShape(i) ==
    DocShape(IF i % 3 = 0 THEN "none" ELSE "full",
             IF i % 2 = 0 THEN Str("IN") ELSE Undef,
             ValidDate(1 + (i % 28)))

WithIds(shapes) == [i \in DOMAIN shapes |-> [shapes[i] EXCEPT !._id = Num(i)]]

SmallCollections ==
    UNION { { WithIds(c) : c \in [1 .. n -> DocShapes] } : n \in 0 .. MaxDocs }

FieldCollections == { WithIds(<<shape>>) : shape \in FieldShapes }

BulkCollections ==
    { WithIds([i \in 1 .. n |-> BulkShape(i)]) : n \in (IocLimit - 1) .. (IocLimit + MaxExtra) }

\* MongoDB's order of detection_date values: missing, then strings, then dates.
DateRank(d) ==
    CASE d.detection_date.kind = "missing" -> 0
      [] d.detection_date.kind = "invalid" -> 1
      [] d.detection_date.kind = "valid"   -> 1 + d.detection_date.day

\* .sort({ detection_date: -1 }): the place of the i-th document is after
\* every document of a greater date and every earlier one of the same date.
SortDesc(all) ==
    LET place == [i \in DOMAIN all |->
                    1 + Cardinality({j \in DOMAIN all :
                          \/ DateRank(all[j]) > DateRank(all[i])
                          \/ DateRank(all[j]) = DateRank(all[i]) /\ j < i})]
    IN  [p \in DOMAIN all |-> all[CHOOSE i \in DOMAIN all : place[i] = p]]

FindAllUnlimited(all) == SortDesc(all)

\* collection.find({}, { limit: 100 }).sort({ detection_date: -1 }).toArray()
FindAll(all) == Slice0(SortDesc(all), IocLimit)

Pad2(n) == IF n < 10 THEN "0" \o Digit(n) ELSE DecimalString(n)

\* new Date(d.detection_date).toISOString().split("T")[0]
IsoDate(date) == "2024-01-" \o Pad2(date.day)

\* d.entity_enrichment?.company?.[field]
CompanyField(d, field) ==
    IF d.entity_enrichment.present /\ d.entity_enrichment.company
    THEN d.entity_enrichment[field] ELSE Undef

\* d.entity_src_meta?.[field]
SrcMetaField(d, field) ==
    IF d.entity_src_meta.present THEN d.entity_src_meta[field] ELSE Undef

\* d.entity_threat_attr?.[field]
ThreatField(d, field) ==
    IF d.entity_threat_attr.present THEN d.entity_threat_attr[field] ELSE Undef

CountryNoDefault(d) ==
    JsOr(CompanyField(d, "country"), SrcMetaField(d, "country_code"))

Country(d) ==
    JsOr(CompanyField(d, "country"), JsOr(SrcMetaField(d, "country_code"), Str("N/A")))

\* The callback of docs.map
FormatDoc(d) ==
    [id |-> IF d._id = Undef THEN Undef ELSE Str(JsString(d._id)),
     entity |-> JsOr(d.entity, Str("N/A")),
     entity_type |-> JsOr(d.entity_type, Str("N/A")),
     asn |-> JsOr(CompanyField(d, "asn"), Str("N/A")),
     as_name |-> JsOr(CompanyField(d, "as_name"), Str("N/A")),
     as_type |-> JsOr(CompanyField(d, "as_type"), Str("N/A")),
     country |-> Country(d),
     threat_type |->
        JsOr(ThreatField(d, "malware_family"),
             JsOr(ThreatField(d, "threat_type"),
                  JsOr(ThreatField(d, "meta_1_type"), Str("Unknown")))),
     conf_score |-> JsOr(SrcMetaField(d, "conf_score"), Num(0)),
     detection_date |->
        IF d.detection_date.kind = "missing" THEN Str("N/A")
        ELSE Str(IsoDate(d.detection_date)),
     source |-> JsOr(d.source, Str("Unknown"))]

\* toISOString() of an invalid Date throws a RangeError.
FormatThrows(d) == d.detection_date.kind = "invalid"

\* The cells of one table row of the IOC view.
IocRow(ioc) ==
    <<ioc.entity, ioc.entity_type, ioc.asn, ioc.as_name, ioc.as_type,
      ioc.country, ioc.threat_type, ioc.detection_date, ioc.source>>

NoResponse == [status |-> 0, error |-> "", records |-> <<>>]

\* NextResponse.json({ error: "Database connection failed" }, { status: 500 })
ErrorResponse == [status |-> 500, error |-> "Database connection failed", records |-> <<>>]

\* NextResponse.json(formatted)
OkResponse(formatted) == [status |-> 200, error |-> "", records |-> formatted]

\* await MongoClient.connect(uri) resolves.
ConnectOk ==
    /\ pc = "connect"
    /\ connects' = connects + 1
    /\ conn' = "open"
    /\ pc' = "query"
    /\ UNCHANGED <<collection, docs, dbFailed, response>>
    /\ UNCHANGED <<liveVars, streamVars, viewVars, scanVars>>

\* await MongoClient.connect(uri) rejects: the catch block answers.
ConnectFail ==
    /\ pc = "connect"
    /\ connects' = connects + 1
    /\ dbFailed' = TRUE
    /\ response' = ErrorResponse
    /\ pc' = "done"
    /\ UNCHANGED <<collection, conn, docs>>
    /\ UNCHANGED <<liveVars, streamVars, viewVars, scanVars>>

\* await ...toArray() resolves.
QueryOk ==
    /\ pc = "query"
    /\ docs' = FindAll(collection)
    /\ pc' = "reshape"
    /\ UNCHANGED <<collection, conn, connects, dbFailed, response>>
    /\ UNCHANGED <<liveVars, streamVars, viewVars, scanVars>>

\* await ...toArray() rejects: the catch block answers.
QueryFail ==
    /\ pc = "query"
    /\ dbFailed' = TRUE
    /\ response' = ErrorResponse
    /\ pc' = "done"
    /\ UNCHANGED <<collection, conn, connects, docs>>
    /\ UNCHANGED <<liveVars, streamVars, viewVars, scanVars>>

\* client.close()
CloseClient(c) == "closed"

ReshapePartial ==
    /\ pc = "reshape"
    /\ conn' = CloseClient(conn)
    /\ response' =
          LET Fine(d) == ~FormatThrows(d)
              kept == SelectSeq(docs, Fine)
          IN  OkResponse([i \in DOMAIN kept |-> FormatDoc(kept[i])])
    /\ pc' = "done"
    /\ UNCHANGED <<collection, connects, docs, dbFailed>>
    /\ UNCHANGED <<liveVars, streamVars, viewVars, scanVars>>

\* docs.map(...), client.close() and the 200 response; or, when the callback
\* throws, the catch block.
Reshape ==
    /\ pc = "reshape"
    /\ IF \E i \in DOMAIN docs : FormatThrows(docs[i])
       THEN /\ response' = ErrorResponse
            /\ UNCHANGED conn
       ELSE /\ conn' = CloseClient(conn)
            /\ response' = OkResponse([i \in DOMAIN docs |-> FormatDoc(docs[i])])
    /\ pc' = "done"
    /\ UNCHANGED <<collection, connects, docs, dbFailed>>
    /\ UNCHANGED <<liveVars, streamVars, viewVars, scanVars>>

\* ------------------------------------------------------------------------
\* IOC database view.

MaxFetches == 4     \* fetchIocs calls of one view instance

\* A value res.json() gives: an array of records, or an object.
JsonArray(items) == [kind |-> "array", items |-> items, error |-> ""]
JsonObject(error) == [kind |-> "object", items |-> <<>>, error |-> error]

\* await res.json() on a response of /api/iocs
JsonOf(resp) ==
    IF resp.status = 200 THEN JsonArray(resp.records) ELSE JsonObject(resp.error)

\* The responses /api/iocs gives the view: its 500 answer, an empty list, a
\* list of one record and a list of two.
ViewResponses ==
    LET one == FormatDoc(WithIds(<<DocShape("full", Undef, ValidDate(3))>>)[1])
        two == FormatDoc(WithIds(<<DocShape("none", Str("IN"), NoDate)>>)[1])
    IN  {ErrorResponse, OkResponse(<<>>), OkResponse(<<one>>), OkResponse(<<one, two>>)}

\* A response whose body is not JSON (an error page put in front of the
\* route): res.json() rejects on it.
BrokenResponse == [status |-> 502, error |-> "", records |-> <<>>]

\* The fetchIocs calls that have not reached their finally block.
InFlight == {k \in DOMAIN fetches : fetches[k].pc \in {"fetching", "parsing"}}

\* The table body can be rendered: iocs.length === 0 or iocs.map(...); on a
\* value that is not an array iocs.map is not a function and render throws.
Renders(value) == value.kind = "array"

RefreshAlwaysEnabled(busy) == TRUE

\* The Refresh button takes clicks: disabled={loading}.
RefreshEnabled(busy) == ~busy

\* A click on Refresh: fetchIocs runs up to its first await.
ClickRefresh ==
    /\ viewMounted
    /\ RefreshEnabled(loading)
    /\ Len(fetches) < MaxFetches
    /\ loading' = TRUE
    /\ fetches' = Append(fetches, [pc |-> "fetching", resp |-> NoResponse])
    /\ UNCHANGED <<viewMounted, iocs>>
    /\ UNCHANGED <<liveVars, streamVars, iocsVars, scanVars>>

\* await fetch("/api/iocs") resolves, whatever the status of the response.
FetchResolves(k, resp) ==
    /\ k \in DOMAIN fetches
    /\ fetches[k].pc = "fetching"
    /\ fetches' = [fetches EXCEPT ![k] = [pc |-> "parsing", resp |-> resp]]
    /\ UNCHANGED <<viewMounted, iocs, loading>>
    /\ UNCHANGED <<liveVars, streamVars, iocsVars, scanVars>>

FetchRejectsNoFinally(k) ==
    /\ k \in DOMAIN fetches
    /\ fetches[k].pc = "fetching"
    /\ fetches' = [fetches EXCEPT ![k].pc = "failed"]
    /\ UNCHANGED <<viewMounted, iocs, loading>>
    /\ UNCHANGED <<liveVars, streamVars, iocsVars, scanVars>>

\* await fetch("/api/iocs") rejects (no network): catch logs, finally sets
\* loading to false.  Setting the state of an unmounted view does nothing.
FetchRejects(k) ==
    /\ k \in DOMAIN fetches
    /\ fetches[k].pc = "fetching"
    /\ fetches' = [fetches EXCEPT ![k].pc = "failed"]
    /\ loading' = IF viewMounted THEN FALSE ELSE loading
    /\ UNCHANGED <<viewMounted, iocs>>
    /\ UNCHANGED <<liveVars, streamVars, iocsVars, scanVars>>

\* await res.json() resolves: setIocs(data), then setLoading(false), and the
\* view renders again; a render that throws takes the view off the page.
JsonResolves(k) ==
    /\ k \in DOMAIN fetches
    /\ fetches[k].pc = "parsing"
    /\ fetches[k].resp # BrokenResponse
    /\ fetches' = [fetches EXCEPT ![k].pc = "done"]
    /\ iocs' = IF viewMounted THEN JsonOf(fetches[k].resp) ELSE iocs
    /\ loading' = IF viewMounted THEN FALSE ELSE loading
    /\ viewMounted' = (viewMounted /\ Renders(iocs'))
    /\ UNCHANGED <<liveVars, streamVars, iocsVars, scanVars>>

\* await res.json() rejects (the body is cut off or is not JSON): catch logs,
\* finally sets loading to false.
JsonRejects(k) ==
    /\ k \in DOMAIN fetches
    /\ fetches[k].pc = "parsing"
    /\ fetches[k].resp = BrokenResponse
    /\ fetches' = [fetches EXCEPT ![k] = [pc |-> "failed", resp |-> NoResponse]]
    /\ loading' = IF viewMounted THEN FALSE ELSE loading
    /\ UNCHANGED <<viewMounted, iocs>>
    /\ UNCHANGED <<liveVars, streamVars, iocsVars, scanVars>>

\* The user leaves the IOC view.
ViewUnmount ==
    /\ viewMounted
    /\ viewMounted' = FALSE
    /\ UNCHANGED <<iocs, loading, fetches>>
    /\ UNCHANGED <<liveVars, streamVars, iocsVars, scanVars>>

\* ------------------------------------------------------------------------
\* On-demand scan view.

MaxScans == 3     \* analyses started in one view instance

\* useState<ScanResult[] | null>: null, or an array of rows.
NoResults == [set |-> FALSE, rows |-> <<>>]
SomeResults(rows) == [set |-> TRUE, rows |-> rows]

\* What the user can paste into the textarea, and what a chosen file can hold.
Texts == {"", "flow-a", "flow-b"}
FileContents == {"", "flow-c"}

\* A ScanResult; confidence in tenths of a percent.
ScanRow(srcIp, dstIp, protocol, verdict, confidence) ==
    [srcIp |-> srcIp, dstIp |-> dstIp, protocol |-> protocol,
     verdict |-> verdict, confidence |-> confidence]

MockResults ==
    << ScanRow("192.168.100.38", "8.8.8.156", 6, "Benign", 942),
       ScanRow("10.0.0.45", "203.0.113.89", 6, "Malware", 978),
       ScanRow("172.16.0.12", "1.1.1.1", 17, "Benign", 921),
       ScanRow("192.168.1.100", "198.51.100.78", 6, "Malware", 895),
       ScanRow("10.10.10.5", "8.8.4.4", 17, "Benign", 957) >>

AnalyzeByInput(text) ==
    IF text = "flow-a" THEN MockResults ELSE SubSeq(MockResults, 1, 1)

\* The rows the timer callback builds for an analysis started on text.
Analyze(text) == MockResults

\* results.length, shown as Logs Processed when results is not null
LogsProcessed(res) == Len(res.rows)

\* results?.filter((r) => r.verdict === "Malware").length || 0
ThreatsDetected(res) ==
    IF res.set
    THEN Cardinality({k \in DOMAIN res.rows : res.rows[k].verdict = "Malware"})
    ELSE 0

\* Analyses started so far.
Started == Len(scans) + Len(timers)

AnalyzeAlwaysEnabled == TRUE

\* The Analyze button takes clicks: disabled={!logText || isAnalyzing}.
AnalyzeEnabled == logText # "" /\ ~isAnalyzing

\* The textarea's onChange.
TypeText(text) ==
    /\ logText' = text
    /\ UNCHANGED <<results, isAnalyzing, timers, reads, scans>>
    /\ UNCHANGED <<liveVars, streamVars, iocsVars, viewVars>>

\* handleFileUpload: a FileReader starts reading the chosen file.
HandleFileUpload(content) ==
    /\ reads' = reads \cup {content}
    /\ UNCHANGED <<logText, results, isAnalyzing, timers, scans>>
    /\ UNCHANGED <<liveVars, streamVars, iocsVars, viewVars>>

\* reader.onload
ReaderLoaded(content) ==
    /\ content \in reads
    /\ reads' = reads \ {content}
    /\ logText' = content
    /\ UNCHANGED <<results, isAnalyzing, timers, scans>>
    /\ UNCHANGED <<liveVars, streamVars, iocsVars, viewVars>>

\* handleAnalyze: isAnalyzing is set and the timer is armed.
HandleAnalyze ==
    /\ AnalyzeEnabled
    /\ Started < MaxScans
    /\ isAnalyzing' = TRUE
    /\ timers' = Append(timers, logText)
    /\ UNCHANGED <<logText, results, reads, scans>>
    /\ UNCHANGED <<liveVars, streamVars, iocsVars, viewVars>>

\* The setTimeout callback, 2000 ms after handleAnalyze.
TimerFires ==
    /\ timers # <<>>
    /\ results' = SomeResults(Analyze(Head(timers)))
    /\ isAnalyzing' = FALSE
    /\ timers' = Tail(timers)
    /\ scans' = Append(scans, [text |-> Head(timers), rows |-> results'.rows])
    /\ UNCHANGED <<logText, reads>>
    /\ UNCHANGED <<liveVars, streamVars, iocsVars, viewVars>>

\* ------------------------------------------------------------------------
\* Specifications.

LiveFree ==
    \/ \E i \in Sources : EsOpen(i)
    \/ \E i \in Sources : EsError(i)
    \/ \E i \in Sources, p \in Payloads : now < MaxMsgs /\ OnMessage(i, p)
    \/ TogglePause
    \/ Unmount

LiveBurst ==
    \/ \E i \in Sources : EsOpen(i)
    \/ \E i \in Sources : now < BurstLen /\ OnMessage(i, BurstPayload(now + 1))
    \/ TogglePause
    \/ Unmount

LiveSearch ==
    \/ \E i \in Sources : EsOpen(i)
    \/ \E i \in Sources, p \in SearchPayloads : now < MaxMsgs /\ OnMessage(i, p)
    \/ \E term \in Terms : SetSearchTerm(term)

StreamNext ==
    \/ OnConnect
    \/ \E line \in Lines : PeerWrite(line)
    \/ \E n \in 1 .. Len(wire) : OnSocketData(n)
    \/ \E m \in ErrMessages : OnSocketError(m)
    \/ OnSocketClose
    \/ ClientCancel

ViewNext ==
    \/ ClickRefresh
    \/ \E k \in 1 .. MaxFetches, resp \in ViewResponses \cup {BrokenResponse} :
          FetchResolves(k, resp)
    \/ \E k \in 1 .. MaxFetches : FetchRejects(k)
    \/ \E k \in 1 .. MaxFetches : JsonResolves(k)
    \/ \E k \in 1 .. MaxFetches : JsonRejects(k)
    \/ ViewUnmount

ScanNext ==
    \/ \E text \in Texts : TypeText(text)
    \/ \E content \in FileContents : HandleFileUpload(content)
    \/ \E content \in FileContents : ReaderLoaded(content)
    \/ HandleAnalyze
    \/ TimerFires

IocsNext ==
    \/ ConnectOk
    \/ ConnectFail
    \/ QueryOk
    \/ QueryFail
    \/ Reshape

\* The state after construction: the view is mounted and its effect has run,
\* the route has created its socket and its stream, the IOC request has begun
\* on an empty collection.
Init ==
    /\ mounted = TRUE
    /\ isPaused = FALSE
    /\ flows = <<>>
    /\ esState = [i \in Sources |-> IF i = 1 THEN "connecting" ELSE "unborn"]
    /\ now = 0
    /\ accepted = <<>>
    /\ searchTerm = ""
    /\ delivered = <<>>
    /\ badLogged = 0
    /\ dropped = FALSE
    /\ sockState = "connecting"
    /\ ctrl = "open"
    /\ out = <<>>
    /\ wire = <<>>
    /\ written = <<>>
    /\ thrown = 0
    /\ collection = <<>>
    /\ pc = "connect"
    /\ conn = "none"
    /\ connects = 0
    /\ docs = <<>>
    /\ dbFailed = FALSE
    /\ response = NoResponse
    /\ viewMounted = TRUE
    /\ iocs = JsonArray(<<>>)
    /\ loading = TRUE
    /\ fetches = <<[pc |-> "fetching", resp |-> NoResponse]>>
    /\ logText = ""
    /\ results = NoResults
    /\ isAnalyzing = FALSE
    /\ timers = <<>>
    /\ reads = {}
    /\ scans = <<>>

\* The same, for a request to /api/iocs on any collection.
InitIocs ==
    /\ mounted = TRUE
    /\ isPaused = FALSE
    /\ flows = <<>>
    /\ esState = [i \in Sources |-> IF i = 1 THEN "connecting" ELSE "unborn"]
    /\ now = 0
    /\ accepted = <<>>
    /\ searchTerm = ""
    /\ delivered = <<>>
    /\ badLogged = 0
    /\ dropped = FALSE
    /\ sockState = "connecting"
    /\ ctrl = "open"
    /\ out = <<>>
    /\ wire = <<>>
    /\ written = <<>>
    /\ thrown = 0
    /\ collection \in SmallCollections \cup BulkCollections \cup FieldCollections
    /\ pc = "connect"
    /\ conn = "none"
    /\ connects = 0
    /\ docs = <<>>
    /\ dbFailed = FALSE
    /\ response = NoResponse
    /\ viewMounted = TRUE
    /\ iocs = JsonArray(<<>>)
    /\ loading = TRUE
    /\ fetches = <<[pc |-> "fetching", resp |-> NoResponse]>>
    /\ logText = ""
    /\ results = NoResults
    /\ isAnalyzing = FALSE
    /\ timers = <<>>
    /\ reads = {}
    /\ scans = <<>>

\* The live view with free payloads.
SpecLive == Init /\ [][LiveFree]_vars

\* The live view under a scripted burst of messages.
SpecBurst == Init /\ [][LiveBurst]_vars
SpecSearch == Init /\ [][LiveSearch]_vars

\* One invocation of the /api/stream route.
SpecStream == Init /\ [][StreamNext]_vars

\* One request to the /api/iocs route.
SpecIocs == InitIocs /\ [][IocsNext]_vars
SpecView == Init /\ [][ViewNext]_vars
SpecScan == Init /\ [][ScanNext]_vars

\* ------------------------------------------------------------------------
\* Properties.

Last(xs) == xs[Len(xs)]

\* C1: the live-flow table holds at most 100 rows, and they are the
\* min(n, 100) most recently accepted flows, the most recent first.
C1_LastHundredNewestFirst ==
    /\ Len(flows) <= 100
    /\ Len(flows) = Min(Len(accepted), 100)
    /\ \A i \in DOMAIN flows : flows[i] = accepted[Len(accepted) - i + 1]

\* After 150 accepted messages the table holds the 150th down to the 51st.
C1_Witness ==
    /\ Len(accepted) = 150
    /\ Len(flows) = 100
    /\ flows[1] = accepted[150]
    /\ flows[100] = accepted[51]
    /\ flows[1].timestamp > flows[100].timestamp

\* C2: the verdict of every flow is "Malware" exactly when bytes > 90000 or
\* duration_ms > 50000, and "Benign" otherwise; at bytes = 90000 and
\* duration_ms = 50000 it is "Benign".
C2_VerdictThreshold ==
    \A i \in DOMAIN accepted :
        LET f == accepted[i]
            over == \/ f.bytes.t = "num" /\ f.bytes.n > 90000
                    \/ f.duration.t = "num" /\ f.duration.n > 50000
        IN  /\ over => f.verdict = "Malware"
            /\ ~over => f.verdict = "Benign"

\* A flow at exactly 90000 bytes and 50000 ms, and one just above, are held.
C2_Witness ==
    /\ \E i \in DOMAIN flows :
          /\ flows[i].bytes = Num(90000)
          /\ flows[i].duration = Num(50000)
          /\ flows[i].verdict = "Benign"
    /\ \E i \in DOMAIN flows :
          /\ flows[i].bytes = Num(90001)
          /\ flows[i].verdict = "Malware"

\* The events of type end among the events the browser dispatches.
EndEvents == {i \in DOMAIN SseEvents : SseEvents[i].type = EndType}

\* C3: once the socket has closed on a stream the browser still reads, the
\* stream carries exactly one end event, it is the last event (no data event
\* follows it) and the stream is closed; the stream is closed by nothing else.
C3_EndThenClosed ==
    /\ Cardinality(EndEvents) <= 1
    /\ \A i \in EndEvents : i = Len(SseEvents)
    /\ (sockState = "closed" /\ ctrl # "cancelled") =>
          /\ Cardinality(EndEvents) = 1
          /\ ctrl = "closed"
    /\ ctrl = "closed" => sockState = "closed"

\* The peer wrote, its lines were relayed, it closed: end is the last event.
C3_Witness ==
    /\ sockState = "closed"
    /\ ctrl = "closed"
    /\ written # <<>>
    /\ Len(SseEvents) >= 2
    /\ SseEvents[1].type = MessageType
    /\ Last(SseEvents).type = EndType

RECURSIVE DataOf(_)
DataOf(events) ==
    IF events = <<>> THEN <<>>
    ELSE (IF Head(events).type = MessageType THEN <<Head(events).data>> ELSE <<>>)
         \o DataOf(Tail(events))

\* C5: when every line the peer wrote has been received, the stream carries
\* one data event per line, with the line as its data.
C5_EveryLineOneDataEvent ==
    (sockState = "connected" /\ ctrl = "open" /\ wire = <<>>) =>
        DataOf(SseEvents) = written

\* C6: the response is 500 with the error body when a database operation
\* failed, and 200 otherwise.
C6_ErrorOnlyOnDbFailure ==
    pc = "done" =>
        IF dbFailed THEN response = ErrorResponse ELSE response.status = 200

NA == Str("N/A")

\* C7 as stated: a record made from a document without entity_enrichment
\* has "N/A" as asn, as_name, as_type and country.
C7_AllNAWithoutEnrichment ==
    response.status = 200 =>
        \A i \in DOMAIN docs :
            ~docs[i].entity_enrichment.present =>
                /\ response.records[i].asn = NA
                /\ response.records[i].as_name = NA
                /\ response.records[i].as_type = NA
                /\ response.records[i].country = NA

\* C7: a record made from a document without entity_enrichment has "N/A" as
\* asn, as_name and as_type, in the response and in the row the view renders;
\* its country is entity_src_meta.country_code when that is present, and
\* "N/A" otherwise.
C7_NAExceptCountryCode ==
    response.status = 200 =>
        /\ Len(response.records) = Len(docs)
        /\ \A i \in DOMAIN docs :
              ~docs[i].entity_enrichment.present =>
                  LET r == response.records[i]
                      code == docs[i].entity_src_meta.country_code
                  IN  /\ r.asn = NA /\ r.as_name = NA /\ r.as_type = NA
                      /\ r.country = IF code.t = "str" /\ code.s # "" THEN code ELSE NA
                      /\ SubSeq(IocRow(r), 3, 6) = <<NA, NA, NA, r.country>>

\* Two documents without entity_enrichment, with and without a country code.
C7_Witness ==
    /\ response.status = 200
    /\ \E i, j \in DOMAIN docs :
          /\ ~docs[i].entity_enrichment.present
          /\ ~docs[j].entity_enrichment.present
          /\ response.records[i].country = Str("IN")
          /\ response.records[j].country = NA

\* C8: a 200 response holds at most 100 records, one for each document read,
\* however many documents the collection holds.
C8_AtMostHundredRecords ==
    response.status = 200 =>
        /\ Len(response.records) <= 100
        /\ Len(response.records) = Min(Len(collection), 100)
        /\ Len(response.records) = Len(docs)
        /\ \A i \in DOMAIN docs :
              /\ response.records[i].id = Str(JsString(docs[i]._id))
              /\ \E k \in DOMAIN collection : collection[k] = docs[i]
        /\ \A i, j \in DOMAIN docs : i # j => response.records[i].id # response.records[j].id

\* A collection of more than 100 documents is answered with 100 records.
C8_Witness ==
    /\ response.status = 200
    /\ Len(collection) > 100
    /\ Len(response.records) = 100

\* C9: a request opens at most one connection, and no connection it opened
\* is still open when its response is returned.
C9_ConnectionClosedAtResponse ==
    /\ connects <= 1
    /\ pc = "done" => conn # "open"

\* C10: the view holds exactly one EventSource that it has not closed while
\* it is mounted and not paused, and none while paused or after unmount.
C10_OneSourceWhileLive ==
    Cardinality(Held) = IF mounted /\ ~isPaused THEN 1 ELSE 0

\* Paused and resumed: the first EventSource is closed, a second one is held.
C10_Witness ==
    /\ mounted /\ ~isPaused
    /\ esState[1] = "closed"
    /\ Held = {2}

\* C11: no socket outlives its stream: whenever the SSE stream of an
\* invocation is closed or cancelled, its TCP socket is closed.
C11_NoSocketOutlivesStream ==
    ctrl \in {"closed", "cancelled"} => sockState = "closed"

\* C12: once the upstream connection has dropped, no row is added to the
\* table of a view that stays mounted and unpaused.
C12_NoRowAfterDrop ==
    [][(dropped /\ mounted /\ ~isPaused) => flows' = flows]_vars

\* C16: while the view is paused the list of flows does not change, and a
\* step that pauses or resumes the view leaves the list as it was.
C16_PauseFreezesTable ==
    [][((isPaused \/ isPaused' # isPaused) => flows' = flows)]_vars

\* Paused with rows in the table while the upstream has more to send.
C16_Witness ==
    /\ mounted /\ isPaused
    /\ Len(flows) >= 1
    /\ now < MaxMsgs

\* C18: every message that is a JSON object becomes a flow, and a numeric
\* protocol is labelled 6 "TCP", 17 "UDP", 1 "ICMP", anything else by its
\* decimal string.
C18_ProtocolLabelled ==
    LET objs == SelectSeq(delivered, Parses)
    IN  /\ Len(accepted) = Len(objs)
        /\ \A k \in DOMAIN objs :
              LET p == objs[k].protocol
              IN  p.t = "num" =>
                    accepted[k].protocol =
                        IF p.n = 6 THEN "TCP"
                        ELSE IF p.n = 17 THEN "UDP"
                        ELSE IF p.n = 1 THEN "ICMP"
                        ELSE IF p.n = 47 THEN "47"
                        ELSE DecimalString(p.n)

\* An ICMP flow and a flow of protocol 47 are both in the table.
C18_Witness ==
    /\ \E k \in DOMAIN delivered :
          Parses(delivered[k]) /\ delivered[k].protocol = Num(1)
    /\ \E k \in DOMAIN delivered :
          Parses(delivered[k]) /\ delivered[k].protocol = Num(47)
    /\ \E k \in DOMAIN flows : flows[k].protocol = "ICMP"
    /\ \E k \in DOMAIN flows : flows[k].protocol = "47"

\* C20: a message whose data is not valid JSON is logged and changes neither
\* the list of flows nor the connection; a message that is a JSON object is
\* added as the first row whatever came before it.
C20_BadJsonDropped ==
    [][delivered' # delivered =>
          LET p == Last(delivered')
          IN  /\ p = BadJson =>
                    /\ flows' = flows
                    /\ esState' = esState
                    /\ badLogged' = badLogged + 1
              /\ Parses(p) =>
                    /\ Len(accepted') = Len(accepted) + 1
                    /\ flows' # <<>>
                    /\ Head(flows') = Last(accepted')
                    /\ Head(flows').dstIp = p.dst_ip
                    /\ badLogged' = badLogged]_vars

\* A message that is not JSON, then a well-formed one: one row, one error
\* logged, the EventSource still open.
C20_Witness ==
    /\ Len(delivered) = 2
    /\ delivered[1] = BadJson
    /\ Parses(delivered[2])
    /\ Len(flows) = 1
    /\ badLogged = 1
    /\ \E i \in Sources : esState[i] = "open"

\* A document's field holds a value: it is neither missing nor empty.
Present(v) == v # Undef /\ v # Str("")

\* C19: in a 200 response every displayed field of every record is
\* non-empty; entity and entity_type are the document's or "N/A", source is
\* the document's or "Unknown", threat_type is the first of malware_family,
\* threat_type and meta["1_type"] that holds a value, else "Unknown".
C19_DisplayedFieldsFilled ==
    response.status = 200 =>
        \A k \in DOMAIN response.records :
            LET r == response.records[k]
                d == docs[k]
                attr == d.entity_threat_attr
            IN  /\ \A c \in DOMAIN IocRow(r) : Present(IocRow(r)[c])
                /\ r.entity = IF Present(d.entity) THEN d.entity ELSE NA
                /\ r.entity_type = IF Present(d.entity_type) THEN d.entity_type ELSE NA
                /\ r.source = IF Present(d.source) THEN d.source ELSE Str("Unknown")
                /\ r.threat_type =
                      IF ~attr.present THEN Str("Unknown")
                      ELSE IF Present(attr.malware_family) THEN attr.malware_family
                      ELSE IF Present(attr.threat_type) THEN attr.threat_type
                      ELSE IF Present(attr.meta_1_type) THEN attr.meta_1_type
                      ELSE Str("Unknown")

\* A record answered for a document with an empty entity, no entity_type,
\* no source, an empty malware_family and meta["1_type"] as its only threat
\* attribute.
C19_Witness ==
    /\ response.status = 200
    /\ Len(docs) = 1
    /\ docs[1].entity = Str("")
    /\ docs[1].entity_type = Undef
    /\ docs[1].source = Undef
    /\ docs[1].entity_threat_attr.malware_family = Str("")
    /\ docs[1].entity_threat_attr.threat_type = Undef
    /\ response.records[1].entity = NA
    /\ response.records[1].source = Str("Unknown")
    /\ response.records[1].threat_type = Str("c2")

\* C13 as stated: Refresh is never held back, so a click while a fetch is in
\* flight starts another one next to it.
C13_RefreshWhileInFlight ==
    (viewMounted /\ InFlight # {} /\ Len(fetches) < MaxFetches)
        => ENABLED ClickRefresh

\* C13, amended: at most one fetchIocs call is in flight, it is the one
\* issued last, the view is loading exactly while it is in flight, and the
\* list is that of the last answered call.
C13_OneFetchInFlight ==
    /\ Cardinality(InFlight) <= 1
    /\ \A k \in InFlight : k = Len(fetches)
    /\ viewMounted => (loading <=> InFlight # {})
    /\ LET done == {k \in DOMAIN fetches : fetches[k].pc = "done"}
       IN  (viewMounted /\ done # {}) =>
              iocs = JsonOf(fetches[CHOOSE k \in done : \A j \in done : j <= k].resp)

\* Three fetches issued one after the other, the third still in flight while
\* the list shows the answer to the second.
C13_Witness ==
    /\ viewMounted
    /\ Len(fetches) = 3
    /\ fetches[1].pc = "done"
    /\ fetches[2].pc = "done"
    /\ fetches[2].resp # fetches[1].resp
    /\ InFlight = {3}
    /\ iocs = JsonOf(fetches[2].resp)

\* C15: a fetch that fails at the network level or is answered with HTTP 500
\* leaves the list as it was, and the list is still an array of records.
C15_FailedFetchKeepsList ==
    [][\A k \in DOMAIN fetches :
          (/\ fetches'[k].pc # fetches[k].pc
           /\ \/ fetches'[k].pc = "failed"
              \/ fetches'[k].pc = "done" /\ fetches[k].resp.status = 500)
          => (iocs' = iocs /\ Renders(iocs'))]_vars

\* C14: every finished analysis, whatever its text, shows the same 5 rows
\* with 2 Malware verdicts; Logs Processed is 5 and Threats Detected is 2.
C14_ResultIndependentOfInput ==
    /\ \A j, k \in DOMAIN scans : scans[j].rows = scans[k].rows
    /\ \A k \in DOMAIN scans :
          /\ Len(scans[k].rows) = 5
          /\ Cardinality({r \in DOMAIN scans[k].rows :
                             scans[k].rows[r].verdict = "Malware"}) = 2
    /\ results.set =>
          /\ LogsProcessed(results) = 5
          /\ ThreatsDetected(results) = 2
          /\ results.rows = Last(scans).rows

\* Two analyses have finished, one of a pasted text and one of an uploaded
\* file's content.
C14_Witness ==
    /\ Len(scans) >= 2
    /\ scans[1].text = "flow-a"
    /\ scans[2].text = "flow-c"
    /\ results.set

\* A value is a string that contains the term.
Contains(value, term) == value.t = "str" /\ Includes(value.s, term)

\* C17: the rows displayed are exactly the held flows, in order, whose source
\* or destination IP contains the search term or whose protocol or verdict
\* contains it ignoring case; an empty term displays every held flow.
C17_DisplayedAreMatching ==
    LET Wanted(flow) ==
            \/ Contains(flow.srcIp, searchTerm)
            \/ Contains(flow.dstIp, searchTerm)
            \/ Includes(ToLowerCase(flow.protocol), ToLowerCase(searchTerm))
            \/ Includes(ToLowerCase(flow.verdict), ToLowerCase(searchTerm))
    IN  /\ FilteredFlows.ok
        /\ FilteredFlows.rows = SelectSeq(flows, Wanted)
        /\ searchTerm = "" => FilteredFlows.rows = flows

\* C21: every held row has a string source IP and destination IP (protocol
\* and verdict are strings by construction), and the filter is defined on
\* the table: evaluating it does not throw.
C21_RowsFilterable ==
    /\ \A k \in DOMAIN flows :
          flows[k].srcIp.t = "str" /\ flows[k].dstIp.t = "str"
    /\ FilteredFlows.ok

\* A chunk is the end frame or an error frame.
Named(chunk) == chunk = EndFrame \/ \E m \in ErrMessages : chunk = ErrorFrame(m)

\* A chunk is a data frame.
Unnamed(chunk) == ~Named(chunk)

\* C22: the end and error frames of a stream hand no event to onmessage and
\* change no row: the events handed to onmessage and the rows of the table
\* are those of the stream's data frames alone, and no table has more rows
\* than the stream has data frames.
C22_NamedEventsAddNoRow ==
    /\ Received(SseEvents) = Received(EventsOf(SelectSeq(out, Unnamed)))
    /\ ViewRows(SseEvents) = ViewRows(EventsOf(SelectSeq(out, Unnamed)))
    /\ Len(ViewRows(SseEvents)) <= Len(SelectSeq(out, Unnamed))
    /\ ViewRows(EventsOf(SelectSeq(out, Named))) = <<>>

\* A JSON object was relayed and made a row; the stream then carried an error
\* event and an end event.
C22_Witness ==
    /\ Len(ViewRows(SseEvents)) = 1
    /\ \E i \in DOMAIN SseEvents : SseEvents[i].type = ErrorType
    /\ \E i \in DOMAIN SseEvents : SseEvents[i].type = EndType

\* C23: the route never calls controller.enqueue on a stream that has been
\* closed or cancelled.
C23_NoEnqueueAfterClose ==
    thrown = 0

\* C24: in a mounted view loading is true exactly while a fetch is in flight
\* and Refresh takes no click while it is true; a step that starts a fetch
\* sets loading, and a step in which a fetch settles, answered or failed,
\* leaves loading false.
C24_LoadingWhileInFlight ==
    /\ [](viewMounted =>
            /\ loading <=> InFlight # {}
            /\ loading => ~ENABLED ClickRefresh)
    /\ [][/\ Len(fetches') > Len(fetches) => loading'
          /\ \A k \in DOMAIN fetches :
                (/\ viewMounted
                 /\ k \in InFlight
                 /\ fetches'[k].pc \in {"done", "failed"})
                => ~loading']_vars

\* One fetch failed, the next was answered, a third is in flight.
C24_Witness ==
    /\ viewMounted
    /\ Len(fetches) = 3
    /\ fetches[1].pc = "failed"
    /\ fetches[2].pc = "done"
    /\ InFlight = {3}
    /\ loading

\* C25: an analysis starts only on a non-empty text while none is running, at
\* most one timer is pending and isAnalyzing is true exactly while it is; a
\* pending timer can always fire, the step in which it fires sets the
\* results and returns isAnalyzing to false, and results that are set stay
\* set.
C25_OneAnalysisAtATime ==
    /\ [](/\ Len(timers) <= 1
          /\ isAnalyzing <=> timers # <<>>
          /\ timers # <<>> => ENABLED TimerFires
          /\ ENABLED HandleAnalyze => (logText # "" /\ ~isAnalyzing))
    /\ [][/\ Len(timers') > Len(timers) => (logText # "" /\ ~isAnalyzing)
          /\ Len(timers') < Len(timers) => (results'.set /\ ~isAnalyzing')
          /\ results.set => results'.set]_vars

\* The results of a first analysis are shown while the timer of a second one
\* is pending.
C25_Witness ==
    /\ Len(scans) = 1
    /\ results.set
    /\ isAnalyzing
    /\ Len(timers) = 1

\* C26: the response is 200 with one record for every document read, in the
\* documents' descending detection_date order and no unread document newer
\* than a read one, or it is 500 with the error body and no record; when
\* reshaping any document read fails, it is the 500 answer.
C26_AllOrNothing ==
    pc = "done" =>
        /\ response.status \in {200, 500}
        /\ response.status = 500 => response = ErrorResponse
        /\ response.status = 200 =>
              /\ Len(response.records) = Len(docs)
              /\ \A k \in DOMAIN docs :
                    /\ response.records[k].id = Str(JsString(docs[k]._id))
                    /\ response.records[k].detection_date =
                          IF docs[k].detection_date.kind = "missing" THEN NA
                          ELSE Str(IsoDate(docs[k].detection_date))
              /\ \A j, k \in DOMAIN docs :
                    j < k => DateRank(docs[j]) >= DateRank(docs[k])
              /\ \A i \in DOMAIN collection :
                    (\A k \in DOMAIN docs : docs[k] # collection[i]) =>
                        \A k \in DOMAIN docs : DateRank(collection[i]) <= DateRank(docs[k])
        /\ (\E k \in DOMAIN docs : docs[k].detection_date.kind = "invalid") =>
              response = ErrorResponse

\* Two documents were read, one of them with a date that cannot be parsed:
\* the answer is the error body although the database did not fail.
C26_Witness ==
    /\ pc = "done"
    /\ ~dbFailed
    /\ Len(docs) = 2
    /\ docs[1].detection_date.kind = "valid"
    /\ docs[2].detection_date.kind = "invalid"
    /\ response = ErrorResponse

====
